---- MODULE Spec2Model ----
(***************************************************************************)
(* Model of the chain engine of src/app.py (class SimpleBlockchain): the   *)
(* in-memory chain, the pending buffer, the store file, the wall clock and *)
(* the position of the one engine process.                                 *)
(*                                                                         *)
(* Text is modelled as a sequence of character codes. A hex digest is the  *)
(* sequence <<c1, c2>> \o s: c1, c2 are its first two characters, computed *)
(* from the hashed bytes s by a small mixing function, and the remaining   *)
(* characters identify s (SHA-256 taken as collision free). The character  *)
(* "0" has code 0 and the character "1" has code 1. The texts of a         *)
(* transaction are strings; encode gives their bytes. A timestamp is a     *)
(* number of clock ticks.                                                  *)
(***************************************************************************)
EXTENDS Integers, Sequences, FiniteSets, TLC

(* Bounds of the model. *)
MaxChain == 3
MaxClock == 1
MaxNonce == 3
MaxStamp == 1

(* Transaction inputs: the texts the caller may submit (src/app.py:145-151). *)
ProductIds == {"PROD-001", "PROD-002"}
Roles == {"Farmer"}

VARIABLES
    pc,                     \* "down" | "failed" | "idle" | "mining"
    chain,                  \* self.chain
    current_transactions,   \* self.current_transactions
    storage,                \* the file self.storage_file
    clock,                  \* the last value time.time() returned
    tx,                     \* argument of the add_transaction call in progress
    previous_hash,          \* local of mine_block
    nonce,                  \* local of mine_block
    returned,               \* <<b>> when the last add_transaction returned b
    saveFailed,             \* some _persist has failed so far
    out,                    \* what the last query since the last submit returned
    log,                    \* history: what was saved, acknowledged, sealed
    threads,                \* the add_transaction calls of concurrent callers
    lock                    \* the mutual exclusion of concurrent callers

vars == <<pc, chain, current_transactions, storage, clock, tx, previous_hash,
          nonce, returned, saveFailed, out, log, threads, lock>>

----------------------------------------------------------------------------
(* Text and digests *)

(* str.encode(): the bytes of the texts a transaction carries. *)
encode(s) ==
    CASE s = "PROD-001" -> <<11>>
      [] s = "PROD-002" -> <<12>>
      [] s = "Farmer" -> <<21>>
      [] s = "Retailer" -> <<22>>
      [] s = "Anonymous" -> <<31>>
      [] s = "Unknown" -> <<41>>
      [] s = "Shipped" -> <<51>>
      [] s = "" -> <<>>

RECURSIVE Sum(_)
Sum(s) == IF s = <<>> THEN 0 ELSE Head(s) + Sum(Tail(s))

RECURSIVE Concat(_)
Concat(ss) == IF ss = <<>> THEN <<>> ELSE Head(ss) \o Concat(Tail(ss))

(* The sentinel previous hash "1" of the genesis block. *)
Sentinel == <<1>>

(* hashlib.sha256(bytes).hexdigest() *)
sha256(bytes) == <<(Sum(bytes) % 4) \div 2, Sum(bytes) % 2>> \o bytes

(* A work predicate no digest satisfies. *)
StartsWith00Never(h) == Len(h) >= 2 /\ h[1] = 0 /\ h[2] = 0 /\ h[1] # h[2]

(* h.startswith("00") *)
StartsWith00(h) == Len(h) >= 2 /\ h[1] = 0 /\ h[2] = 0

----------------------------------------------------------------------------
(* Data model *)

(* Transaction(product_id, role, actor_name, location, status, extra_info,
   timestamp): a dataclass instance, its fields in declaration order. *)
Transaction(product_id, role, actor_name, location, status, extra_info, timestamp) ==
    <<product_id, role, actor_name, location, status, extra_info, timestamp>>

(* dataclasses.asdict of a Transaction *)
asdict(t) ==
    [product_id |-> t[1], role |-> t[2], actor_name |-> t[3], location |-> t[4],
     status |-> t[5], extra_info |-> t[6], timestamp |-> t[7]]

(* Block(index, timestamp, transactions, previous_hash, nonce, hash) *)
Block(index, timestamp, transactions, prev, n, hash) ==
    [index |-> index, timestamp |-> timestamp, transactions |-> transactions,
     previous_hash |-> prev, nonce |-> n, hash |-> hash]

(* [asdict(t) for t in self.current_transactions] *)
AsDicts(cur) == [i \in 1..Len(cur) |-> asdict(cur[i])]

(* json.dumps(d, sort_keys=True).encode() of one transaction dict: the keys
   in sorted order, every text preceded by its length. *)
TxBytes(d) ==
    <<Len(encode(d.actor_name))>> \o encode(d.actor_name)
    \o <<Len(encode(d.extra_info))>> \o encode(d.extra_info)
    \o <<Len(encode(d.location))>> \o encode(d.location)
    \o <<Len(encode(d.product_id))>> \o encode(d.product_id)
    \o <<Len(encode(d.role))>> \o encode(d.role)
    \o <<Len(encode(d.status))>> \o encode(d.status)
    \o <<d.timestamp>>

(* json.dumps({"index", "timestamp", "transactions", "previous_hash",
   "nonce"}, sort_keys=True).encode(): the canonical record, keys sorted. *)
BlockString(index, timestamp, txs, prev, n) ==
    <<index, n, Len(prev)>> \o prev \o <<timestamp, Len(txs)>>
    \o Concat([i \in 1..Len(txs) |-> TxBytes(txs[i])])

----------------------------------------------------------------------------
(* The store file: JSON text, modelled as the tree of values it denotes *)

JInt(n) == [j |-> "int", v |-> n]
JFloat(x) == [j |-> "float", v |-> x]
JStr(s) == [j |-> "str", v |-> s]
JArr(items) == [j |-> "arr", v |-> items]
JObj(members) == [j |-> "obj", v |-> members]
JNull == [j |-> "null", v |-> 0]

(* json.dump of one transaction dict *)
DumpTx(d) ==
    JObj([product_id |-> JStr(d.product_id), role |-> JStr(d.role),
          actor_name |-> JStr(d.actor_name), location |-> JStr(d.location),
          status |-> JStr(d.status), extra_info |-> JStr(d.extra_info),
          timestamp |-> JFloat(d.timestamp)])

(* json.dump of asdict(b) for a Block b *)
DumpBlock(b) ==
    JObj([index |-> JInt(b.index), timestamp |-> JFloat(b.timestamp),
          transactions |-> JArr([i \in 1..Len(b.transactions) |->
                                    DumpTx(b.transactions[i])]),
          previous_hash |-> JStr(b.previous_hash), nonce |-> JInt(b.nonce),
          hash |-> JStr(b.hash)])

(* PersistData that leaves out the newest block. *)
PersistDataStale(ch) ==
    JObj([chain |-> JArr([i \in 1..(Len(ch) - 1) |-> DumpBlock(ch[i])])])

(* PersistData that writes the newest block alone. *)
PersistDataNewestOnly(ch) ==
    JObj([chain |-> JArr([i \in 1..(IF ch = <<>> THEN 0 ELSE 1) |-> DumpBlock(ch[Len(ch)])])])

(* _persist: the text written, {"chain": [asdict(b) for b in self.chain]} *)
PersistData(ch) ==
    JObj([chain |-> JArr([i \in 1..Len(ch) |-> DumpBlock(ch[i])])])

(* json.load: objects to dicts, arrays to lists, numbers and texts to values *)
RECURSIVE loads(_)
loads(j) ==
    CASE j.j = "obj" -> [k \in DOMAIN j.v |-> loads(j.v[k])]
      [] j.j = "arr" -> [i \in DOMAIN j.v |-> loads(j.v[i])]
      [] OTHER -> j.v

BlockKeys == {"index", "timestamp", "transactions", "previous_hash", "nonce", "hash"}

(* LoadBlock with index and nonce exchanged. *)
LoadBlockSwapped(b) ==
    Block(b["nonce"], b["timestamp"], b["transactions"], b["previous_hash"],
          b["index"], b["hash"])

(* The Block built by _load from one parsed dict b. *)
LoadBlock(b) ==
    Block(b["index"], b["timestamp"], b["transactions"], b["previous_hash"],
          b["nonce"], b["hash"])

(* _load on the parsed document data: data.get("chain", []), then one Block
   per entry; a missing key raises. *)
(* LoadChain that leaves out the last block of the document. *)
LoadChainShort(data) ==
    LET blocks == IF "chain" \in DOMAIN data THEN data["chain"] ELSE <<>>
    IN  IF \A i \in DOMAIN blocks : BlockKeys \subseteq DOMAIN blocks[i]
        THEN [ok |-> TRUE, chain |-> [i \in 1..(Len(blocks) - 1) |-> LoadBlock(blocks[i])]]
        ELSE [ok |-> FALSE, chain |-> <<>>]

LoadChain(data) ==
    LET blocks == IF "chain" \in DOMAIN data THEN data["chain"] ELSE <<>>
    IN  IF \A i \in DOMAIN blocks : BlockKeys \subseteq DOMAIN blocks[i]
        THEN [ok |-> TRUE, chain |-> [i \in DOMAIN blocks |-> LoadBlock(blocks[i])]]
        ELSE [ok |-> FALSE, chain |-> <<>>]

(* The file: absent, holding a complete document, or torn (opened for
   writing, so truncated, and the document not completely written). *)
NoFile == [state |-> "absent", text |-> JNull]
TornFile == [state |-> "torn", text |-> JNull]
FileOf(text) == [state |-> "ok", text |-> text]

(* os.path.exists that never finds the file. *)
ExistsNever(f) == FALSE

(* os.path.exists(self.storage_file) *)
Exists(f) == f.state # "absent"

(* _load of the file f: json.load raises on a torn file. *)
Load(f) ==
    IF f.state = "ok" THEN LoadChain(loads(f.text))
    ELSE [ok |-> FALSE, chain |-> <<>>]

(* The outcomes of one _persist call: the document is written; open() raises
   and the file is as it was; the write is interrupted after open() truncated
   the file. *)
SaveOutcomes == {"ok", "error", "torn"}

(* The file after _persist of the chain ch with the outcome o. *)
Persisted(f, ch, o) ==
    CASE o = "ok" -> FileOf(PersistData(ch))
      [] o = "error" -> f
      [] o = "torn" -> TornFile

----------------------------------------------------------------------------
(* The engine *)

(* time.time(): the clock does not go back; it stops at MaxClock. *)
Now == {t \in {clock, clock + 1} : t <= MaxClock}
Later(t0) == {t \in {t0, t0 + 1} : t <= MaxClock}

(* TipHash reading the first block instead of the last. *)
TipHashOfFirst(ch) == IF ch # <<>> THEN ch[1].hash ELSE Sentinel

(* self.chain[-1].hash if self.chain else "1" *)
TipHash(ch) == IF ch # <<>> THEN ch[Len(ch)].hash ELSE Sentinel

(* NextIndex without the + 1. *)
NextIndexOffByOne(ch) == Len(ch)

(* len(self.chain) + 1 *)
NextIndex(ch) == Len(ch) + 1

(* AppendBlock inserting at the front. *)
AppendBlockAtFront(ch, b) == <<b>> \o ch

(* self.chain.append(block) *)
AppendBlock(ch, b) == Append(ch, b)

(* BufferAfterSeal that leaves the buffer as it is. *)
BufferKept(cur) == cur

(* self.current_transactions = [] after a seal *)
BufferAfterSeal(cur) == <<>>

(* _create_block(previous_hash, nonce) at the time t *)
CreateBlock(ch, cur, prev, n, t) ==
    LET txs == AsDicts(cur)
        block_string == BlockString(NextIndex(ch), t, txs, prev, n)
    IN  Block(NextIndex(ch), t, txs, prev, n, sha256(block_string))

(* The candidate of one attempt of mine_block at the time t, and its digest. *)
Candidate(ch, cur, prev, n, t) == BlockString(NextIndex(ch), t, AsDicts(cur), prev, n)

(* A nonce step that skips a value. *)
NextNonceSkip(n) == n + 2

(* nonce += 1 *)
NextNonce(n) == n + 1

(* The timestamp mine_block stores: time.time() read again after the digest
   was accepted (tc is the candidate's timestamp, t the new reading). *)
SealTimestamp(tc, t) == t

(* MinedBlock that reads the buffer after it was cleared. *)
MinedBlockAfterClear(ch, cur, prev, n, h, tc, t) ==
    Block(NextIndex(ch), SealTimestamp(tc, t), AsDicts(<<>>), prev, n, h)

(* The block mine_block builds once the digest h is accepted. *)
MinedBlock(ch, cur, prev, n, h, tc, t) ==
    Block(NextIndex(ch), SealTimestamp(tc, t), AsDicts(cur), prev, n, h)

(* get_product_history: one entry of the result, dict(tx) with the three
   keys of the enclosing block set. *)
HistoryEntry(d, b) ==
    [k \in DOMAIN d \cup {"_block_index", "_block_hash", "_block_timestamp"} |->
        CASE k = "_block_index" -> b.index
          [] k = "_block_hash" -> b.hash
          [] k = "_block_timestamp" -> b.timestamp
          [] OTHER -> d[k]]

(* The entries of one block for product_id, in the block's order. *)
BlockEntries(b, product_id) ==
    LET match == SelectSeq(b.transactions, LAMBDA d : d.product_id = product_id)
    IN  [i \in 1..Len(match) |-> HistoryEntry(match[i], b)]

(* InsertByTimestamp that puts an entry before the entries of equal
   timestamp: a sort that is not stable. *)
RECURSIVE InsertByTimestampUnstable(_, _)
InsertByTimestampUnstable(s, e) ==
    IF s = <<>> THEN <<e>>
    ELSE IF s[Len(s)]["timestamp"] < e["timestamp"] THEN Append(s, e)
    ELSE Append(InsertByTimestampUnstable(SubSeq(s, 1, Len(s) - 1), e), s[Len(s)])

(* list.sort(key=lambda e: e["timestamp"]): stable, ascending. *)
RECURSIVE InsertByTimestamp(_, _)
InsertByTimestamp(s, e) ==
    IF s = <<>> THEN <<e>>
    ELSE IF s[Len(s)]["timestamp"] <= e["timestamp"] THEN Append(s, e)
    ELSE Append(InsertByTimestamp(SubSeq(s, 1, Len(s) - 1), e), s[Len(s)])

RECURSIVE SortByTimestamp(_)
SortByTimestamp(s) ==
    IF s = <<>> THEN <<>>
    ELSE InsertByTimestamp(SortByTimestamp(SubSeq(s, 1, Len(s) - 1)), s[Len(s)])

(* get_product_history(product_id) *)
get_product_history(ch, product_id) ==
    SortByTimestamp(Concat([i \in 1..Len(ch) |-> BlockEntries(ch[i], product_id)]))

(* datetime.fromtimestamp(t).isoformat() and .strftime("%Y-%m-%d %H:%M:%S") *)
isoformat(t) == <<"iso", t>>
strftime(t) == <<"ymdhms", t>>

(* all_transactions_table: one row of the frame. *)
TableRow(d, b) ==
    [k \in DOMAIN d \cup {"block_index", "block_time", "readable_time"} |->
        CASE k = "block_index" -> b.index
          [] k = "block_time" -> isoformat(b.timestamp)
          [] k = "readable_time" -> strftime(d.timestamp)
          [] OTHER -> d[k]]

(* all_transactions_table that starts the rows anew for every block. *)
all_transactions_table_last_block(ch) ==
    IF ch = <<>> THEN <<>>
    ELSE [k \in 1..Len(ch[Len(ch)].transactions) |->
             TableRow(ch[Len(ch)].transactions[k], ch[Len(ch)])]

(* all_transactions_table(): the rows of the frame. *)
all_transactions_table(ch) ==
    Concat([i \in 1..Len(ch) |->
              [k \in 1..Len(ch[i].transactions) |-> TableRow(ch[i].transactions[k], ch[i])]])

(* raw_chain(): [asdict(b) for b in self.chain] *)
raw_chain(ch) == [i \in 1..Len(ch) |-> [k \in BlockKeys |-> ch[i][k]]]

NoOutput == [op |-> "none", value |-> <<>>]

(* The history kept for the properties: durable is the chain of the last
   _persist that returned, acked the transactions whose add_transaction
   returned (in order), crashed whether the process died inside a mutation
   and has not been started since, rejected the attempts of the running
   mine_block whose digest was rejected. *)
NoLog == [durable |-> <<>>, acked |-> <<>>, crashed |-> FALSE, rejected |-> 0]

(* Concurrent callers of one engine: none is inside a call. *)
Threads == {1, 2}
ReadyThread ==
    [pc |-> "ready", tx |-> <<>>, previous_hash |-> Sentinel, nonce |-> 0,
     tc |-> 0, h |-> <<>>, hashed |-> <<>>, block |-> <<>>]
NoThreads == [t \in Threads |-> ReadyThread]
NoLock == [serialized |-> FALSE, holder |-> 0]

Init ==
    /\ pc = "down"
    /\ chain = <<>>
    /\ current_transactions = <<>>
    /\ storage = NoFile
    /\ clock = 0
    /\ tx = <<>>
    /\ previous_hash = Sentinel
    /\ nonce = 0
    /\ returned = <<>>
    /\ saveFailed = FALSE
    /\ out = NoOutput
    /\ log = NoLog
    /\ threads = NoThreads
    /\ lock = NoLock

(* __init__ when the file exists and _load succeeds. *)
StartupLoad ==
    /\ pc \in {"down", "failed"}
    /\ Exists(storage)
    /\ Load(storage).ok
    /\ chain' = Load(storage).chain
    /\ current_transactions' = <<>>
    /\ pc' = "idle"
    /\ log' = [log EXCEPT !.crashed = FALSE]
    /\ UNCHANGED <<storage, clock, tx, previous_hash, nonce, returned, saveFailed, out,
                   threads, lock>>

(* __init__ when the file exists and _load raises. *)
StartupLoadFails ==
    /\ pc \in {"down", "failed"}
    /\ Exists(storage)
    /\ ~Load(storage).ok
    /\ pc' = "failed"
    /\ log' = [log EXCEPT !.crashed = FALSE]
    /\ UNCHANGED <<chain, current_transactions, storage, clock, tx,
                   previous_hash, nonce, returned, saveFailed, out, threads, lock>>

(* __init__ when there is no file: _create_genesis, with _persist. When
   _persist raises, so does the constructor, and there is no engine. *)
StartupGenesis ==
    /\ pc \in {"down", "failed"}
    /\ ~Exists(storage)
    /\ \E t \in Now, o \in SaveOutcomes :
          LET genesis_block == CreateBlock(<<>>, <<>>, Sentinel, 0, t)
              ch == AppendBlock(<<>>, genesis_block)
          IN  /\ clock' = t
              /\ storage' = Persisted(storage, ch, o)
              /\ saveFailed' = (saveFailed \/ o # "ok")
              /\ IF o = "ok"
                 THEN /\ pc' = "idle"
                      /\ chain' = ch
                      /\ current_transactions' = BufferAfterSeal(<<>>)
                      /\ log' = [log EXCEPT !.durable = ch, !.crashed = FALSE]
                 ELSE /\ pc' = "failed"
                      /\ chain' = <<>>
                      /\ current_transactions' = <<>>
                      /\ log' = [log EXCEPT !.crashed = FALSE]
    /\ UNCHANGED <<tx, previous_hash, nonce, returned, out, threads, lock>>

(* add_transaction(tx) up to the first attempt of mine_block: the caller
   stamps the transaction, it is appended to the buffer, the tip is read. *)
AddTransaction ==
    /\ pc = "idle"
    /\ Len(chain) < MaxChain
    /\ \E p \in ProductIds, r \in Roles, t \in Now :
          LET new == Transaction(p, r, "Anonymous", "Unknown", "Shipped", "", t)
          IN  /\ tx' = <<new>>
              /\ current_transactions' = Append(current_transactions, new)
              /\ clock' = t
    /\ previous_hash' = TipHash(chain)
    /\ nonce' = 0
    /\ returned' = <<>>
    /\ out' = NoOutput
    /\ pc' = "mining"
    /\ UNCHANGED <<chain, storage, saveFailed, log, threads, lock>>

(* One attempt of mine_block whose digest is rejected, the attempts capped
   at cap. *)
MineRejectUpTo(cap) ==
    /\ pc = "mining"
    /\ nonce < cap
    /\ \E t \in Now :
          LET h == sha256(Candidate(chain, current_transactions, previous_hash, nonce, t))
          IN  /\ ~StartsWith00(h)
              /\ clock' = t
    /\ nonce' = NextNonce(nonce)
    /\ log' = [log EXCEPT !.rejected = @ + 1]
    /\ UNCHANGED <<pc, chain, current_transactions, storage, tx, previous_hash,
                   returned, saveFailed, out, threads, lock>>

MineReject == MineRejectUpTo(MaxNonce)

(* The attempt of mine_block whose digest is accepted: the block is built,
   appended, the buffer cleared, the chain persisted, the block returned
   (or the error of _persist raised). *)
MineAccept ==
    /\ pc = "mining"
    /\ \E tc \in Now :
          LET h == sha256(Candidate(chain, current_transactions, previous_hash, nonce, tc))
          IN  /\ StartsWith00(h)
              /\ \E t \in Later(tc), o \in SaveOutcomes :
                    LET block == MinedBlock(chain, current_transactions,
                                            previous_hash, nonce, h, tc, t)
                    IN  /\ chain' = AppendBlock(chain, block)
                        /\ current_transactions' = BufferAfterSeal(current_transactions)
                        /\ storage' = Persisted(storage, chain', o)
                        /\ saveFailed' = (saveFailed \/ o # "ok")
                        /\ returned' = IF o = "ok" THEN <<block>> ELSE <<>>
                        /\ clock' = t
                        /\ log' = [log EXCEPT
                                     !.durable = IF o = "ok" THEN chain' ELSE @,
                                     !.acked = IF o = "ok" THEN Append(@, tx[1]) ELSE @,
                                     !.rejected = 0]
    /\ pc' = "idle"
    /\ previous_hash' = Sentinel
    /\ nonce' = 0
    /\ tx' = <<>>
    /\ UNCHANGED <<out, threads, lock>>

(* The file after a process died inside _persist of the chain ch: open() had
   not truncated it yet, the document is partly written, or the document is
   written and _persist had not returned. *)
CrashOutcomes(f, ch) == {f, TornFile, FileOf(PersistData(ch))}

(* The process dies inside mine_block after the block was appended and
   before _persist has returned. Memory is lost. *)
CrashInSubmit ==
    /\ pc = "mining"
    /\ \E tc \in Now :
          LET h == sha256(Candidate(chain, current_transactions, previous_hash, nonce, tc))
          IN  /\ StartsWith00(h)
              /\ \E t \in Later(tc) :
                    /\ clock' = t
                    /\ storage' \in CrashOutcomes(storage,
                                       AppendBlock(chain,
                                           MinedBlock(chain, current_transactions,
                                                      previous_hash, nonce, h, tc, t)))
    /\ pc' = "down"
    /\ chain' = <<>>
    /\ current_transactions' = <<>>
    /\ tx' = <<>>
    /\ previous_hash' = Sentinel
    /\ nonce' = 0
    /\ returned' = <<>>
    /\ out' = NoOutput
    /\ log' = [log EXCEPT !.crashed = TRUE, !.rejected = 0]
    /\ UNCHANGED <<saveFailed, threads, lock>>

(* The process dies inside _create_genesis in the same way. *)
CrashInGenesis ==
    /\ pc \in {"down", "failed"}
    /\ ~Exists(storage)
    /\ \E t \in Now :
          /\ clock' = t
          /\ storage' \in CrashOutcomes(storage,
                             AppendBlock(<<>>, CreateBlock(<<>>, <<>>, Sentinel, 0, t)))
    /\ pc' = "down"
    /\ log' = [log EXCEPT !.crashed = TRUE, !.rejected = 0]
    /\ UNCHANGED <<chain, current_transactions, tx, previous_hash, nonce, returned,
                   saveFailed, out, threads, lock>>

(* The caller asks for the history of one product. *)
GetProductHistory ==
    /\ pc = "idle"
    /\ \E x \in ProductIds :
          out' = [op |-> "history", value |-> get_product_history(chain, x)]
    /\ UNCHANGED <<pc, chain, current_transactions, storage, clock, tx,
                   previous_hash, nonce, returned, saveFailed, log, threads, lock>>

(* The caller asks for the table of all transactions. *)
AllTransactionsTable ==
    /\ pc = "idle"
    /\ out' = [op |-> "table", value |-> all_transactions_table(chain)]
    /\ UNCHANGED <<pc, chain, current_transactions, storage, clock, tx,
                   previous_hash, nonce, returned, saveFailed, log, threads, lock>>

(* The caller asks for the raw chain. *)
RawChain ==
    /\ pc = "idle"
    /\ out' = [op |-> "raw", value |-> raw_chain(chain)]
    /\ UNCHANGED <<pc, chain, current_transactions, storage, clock, tx,
                   previous_hash, nonce, returned, saveFailed, log, threads, lock>>

(* The process ends (the script run is over, or it crashed): memory is lost. *)
Stop ==
    /\ pc \in {"idle", "mining"}
    /\ pc' = "down"
    /\ chain' = <<>>
    /\ current_transactions' = <<>>
    /\ tx' = <<>>
    /\ previous_hash' = Sentinel
    /\ nonce' = 0
    /\ returned' = <<>>
    /\ out' = NoOutput
    /\ log' = [log EXCEPT !.rejected = 0]
    /\ UNCHANGED <<storage, clock, saveFailed, threads, lock>>

Next ==
    \/ StartupLoad
    \/ StartupLoadFails
    \/ StartupGenesis
    \/ AddTransaction
    \/ MineReject
    \/ MineAccept
    \/ CrashInSubmit
    \/ CrashInGenesis
    \/ GetProductHistory
    \/ AllTransactionsTable
    \/ RawChain
    \/ Stop

Spec == Init /\ [][Next]_vars

----------------------------------------------------------------------------
(* The engine started on a store it did not write itself: the file absent,
   not parsable, or holding one of a few documents. *)

GenesisAt0 == CreateBlock(<<>>, <<>>, Sentinel, 0, 0)

(* {} *)
DocEmptyObject == JObj([k \in {} |-> JNull])

(* {"chain": []} *)
DocEmptyChain == JObj([chain |-> JArr(<<>>)])

(* A block entry without its "hash". *)
DumpBlockNoHash(b) ==
    JObj([index |-> JInt(b.index), timestamp |-> JFloat(b.timestamp),
          transactions |-> JArr(<<>>), previous_hash |-> JStr(b.previous_hash),
          nonce |-> JInt(b.nonce)])

(* {"chain": [b1, b2]} with the second entry lacking its "hash". *)
DocPartial == JObj([chain |-> JArr(<<DumpBlock(GenesisAt0), DumpBlockNoHash(GenesisAt0)>>)])

InitialFiles ==
    {NoFile, TornFile, FileOf(DocEmptyObject), FileOf(DocEmptyChain),
     FileOf(DocPartial), FileOf(PersistData(<<GenesisAt0>>))}

InitDocs ==
    /\ pc = "down"
    /\ chain = <<>>
    /\ current_transactions = <<>>
    /\ storage \in InitialFiles
    /\ clock = 0
    /\ tx = <<>>
    /\ previous_hash = Sentinel
    /\ nonce = 0
    /\ returned = <<>>
    /\ saveFailed = FALSE
    /\ out = NoOutput
    /\ log = NoLog
    /\ threads = NoThreads
    /\ lock = NoLock

NextDocs ==
    \/ StartupLoad
    \/ StartupLoadFails
    \/ StartupGenesis
    \/ AddTransaction
    \/ MineReject
    \/ MineAccept
    \/ Stop

SpecDocs == InitDocs /\ [][NextDocs]_vars

----------------------------------------------------------------------------
(* One process that keeps running: the engine is created on an empty store
   and submits follow one another; the loop of mine_block has no bound. A
   running loop takes its next attempt (weak fairness): the process is not
   stopped inside the loop. *)

(* The digest head takes DigestHeads values; the search is not cut before
   every nonce has met every head at every clock value. *)
DigestHeads == 4

NonceHorizon == DigestHeads * (MaxClock + 2)

MineRejectLive == MineRejectUpTo(NonceHorizon)

NextLive ==
    \/ StartupGenesis
    \/ AddTransaction
    \/ MineRejectLive
    \/ MineAccept

(* One pass of the while loop of mine_block, seen from its control state:
   the nonce moves (line 88) or the call ends (line 87). *)
LoopStep ==
    /\ pc = "mining"
    /\ nonce < NonceHorizon
    /\ pc' \in {"mining", "idle"}
    /\ nonce' \in 0..NonceHorizon

SpecLive ==
    /\ Init
    /\ [][NextLive]_vars
    /\ WF_<<pc, nonce>>(LoopStep)

----------------------------------------------------------------------------
(* Two callers of add_transaction on one engine. Each makes one call, which
   advances statement by statement; the locals of a call (previous_hash,
   nonce, h, timestamp, txs, block) are the caller's own, self.chain and
   self.current_transactions are shared. With lock.serialized the calls
   exclude one another from the first statement to the return. The field
   hashed of a caller is the transaction list its accepted candidate held. *)

ThreadProduct == [t \in Threads |-> IF t = 1 THEN "PROD-001" ELSE "PROD-002"]

(* Every caller may enter, whoever is inside. *)
CanEnterAlways(l) == TRUE

(* A caller may enter add_transaction. *)
CanEnter(l) == l.serialized => l.holder = 0

InitConc ==
    /\ pc = "idle"
    /\ chain = <<GenesisAt0>>
    /\ current_transactions = <<>>
    /\ storage = FileOf(PersistData(chain))
    /\ clock = 0
    /\ tx = <<>>
    /\ previous_hash = Sentinel
    /\ nonce = 0
    /\ returned = <<>>
    /\ saveFailed = FALSE
    /\ out = NoOutput
    /\ log = [NoLog EXCEPT !.durable = chain]
    /\ threads = NoThreads
    /\ lock \in {[serialized |-> b, holder |-> 0] : b \in BOOLEAN}

ConcUnchanged == UNCHANGED <<pc, tx, previous_hash, nonce, returned, saveFailed, out, log>>

(* line 63: self.current_transactions.append(tx) *)
ThreadAppend(t) ==
    /\ threads[t].pc = "ready"
    /\ CanEnter(lock)
    /\ \E now \in Now :
          LET new == Transaction(ThreadProduct[t], "Farmer", "Anonymous", "Unknown",
                                 "Shipped", "", now)
          IN  /\ current_transactions' = Append(current_transactions, new)
              /\ threads' = [threads EXCEPT ![t].pc = "appended", ![t].tx = <<new>>]
              /\ clock' = now
    /\ lock' = [lock EXCEPT !.holder = IF lock.serialized THEN t ELSE @]
    /\ UNCHANGED <<chain, storage>>
    /\ ConcUnchanged

(* lines 67-68: previous_hash = self.chain[-1].hash ...; nonce = 0 *)
ThreadReadTip(t) ==
    /\ threads[t].pc = "appended"
    /\ threads' = [threads EXCEPT ![t].pc = "hashing",
                                  ![t].previous_hash = TipHash(chain),
                                  ![t].nonce = 0]
    /\ UNCHANGED <<chain, current_transactions, storage, clock, lock>>
    /\ ConcUnchanged

(* lines 70-78, 88: an attempt whose digest is rejected *)
ThreadReject(t) ==
    /\ threads[t].pc = "hashing"
    /\ threads[t].nonce < MaxNonce
    /\ \E now \in Now :
          /\ ~StartsWith00(sha256(Candidate(chain, current_transactions,
                                            threads[t].previous_hash, threads[t].nonce, now)))
          /\ clock' = now
    /\ threads' = [threads EXCEPT ![t].nonce = NextNonce(@)]
    /\ UNCHANGED <<chain, current_transactions, storage, lock>>
    /\ ConcUnchanged

(* lines 70-78: an attempt whose digest is accepted *)
ThreadAccept(t) ==
    /\ threads[t].pc = "hashing"
    /\ \E now \in Now :
          LET h == sha256(Candidate(chain, current_transactions,
                                    threads[t].previous_hash, threads[t].nonce, now))
          IN  /\ StartsWith00(h)
              /\ threads' = [threads EXCEPT ![t].pc = "accepted", ![t].h = h,
                                            ![t].tc = now,
                                            ![t].hashed = AsDicts(current_transactions)]
              /\ clock' = now
    /\ UNCHANGED <<chain, current_transactions, storage, lock>>
    /\ ConcUnchanged

(* lines 79-83: timestamp, txs and block, from the buffer and the chain as
   they are now *)
ThreadBuild(t) ==
    /\ threads[t].pc = "accepted"
    /\ \E now \in Now :
          /\ threads' = [threads EXCEPT
                           ![t].pc = "built",
                           ![t].block = <<MinedBlock(chain, current_transactions,
                                                     threads[t].previous_hash,
                                                     threads[t].nonce, threads[t].h,
                                                     threads[t].tc, now)>>]
          /\ clock' = now
    /\ UNCHANGED <<chain, current_transactions, storage, lock>>
    /\ ConcUnchanged

(* line 84: self.chain.append(block) *)
ThreadAppendChain(t) ==
    /\ threads[t].pc = "built"
    /\ chain' = AppendBlock(chain, threads[t].block[1])
    /\ threads' = [threads EXCEPT ![t].pc = "linked"]
    /\ UNCHANGED <<current_transactions, storage, clock, lock>>
    /\ ConcUnchanged

(* line 85: self.current_transactions = [] *)
ThreadClear(t) ==
    /\ threads[t].pc = "linked"
    /\ current_transactions' = BufferAfterSeal(current_transactions)
    /\ threads' = [threads EXCEPT ![t].pc = "cleared"]
    /\ UNCHANGED <<chain, storage, clock, lock>>
    /\ ConcUnchanged

(* lines 86-87: self._persist(); return block *)
ThreadPersist(t) ==
    /\ threads[t].pc = "cleared"
    /\ storage' = Persisted(storage, chain, "ok")
    /\ threads' = [threads EXCEPT ![t].pc = "done", ![t].tx = <<>>,
                                  ![t].previous_hash = Sentinel, ![t].nonce = 0,
                                  ![t].tc = 0, ![t].h = <<>>]
    /\ lock' = [lock EXCEPT !.holder = 0]
    /\ UNCHANGED <<chain, current_transactions, clock>>
    /\ ConcUnchanged

NextConc ==
    \/ \E t \in Threads : ThreadAppend(t)
    \/ \E t \in Threads : ThreadReadTip(t)
    \/ \E t \in Threads : ThreadReject(t)
    \/ \E t \in Threads : ThreadAccept(t)
    \/ \E t \in Threads : ThreadBuild(t)
    \/ \E t \in Threads : ThreadAppendChain(t)
    \/ \E t \in Threads : ThreadClear(t)
    \/ \E t \in Threads : ThreadPersist(t)

SpecConc == InitConc /\ [][NextConc]_vars

----------------------------------------------------------------------------
(* The queries on any chain the engine may hold: a chain as _load takes it
   from a file, the blocks linked, with up to two transactions in a block,
   of any product and in any order of their timestamps. *)

QueryRoles == {"Farmer", "Retailer"}

QueryTxs ==
    {Transaction(p, r, "Anonymous", "Unknown", "Shipped", "", t) :
        p \in ProductIds, r \in QueryRoles, t \in 0..MaxStamp}

(* The buffers of at most n transactions. *)
QueryBuffers(n) ==
    {<<>>} \cup {<<a>> : a \in QueryTxs}
           \cup (IF n >= 2 THEN {<<a, b>> : a \in QueryTxs, b \in QueryTxs} ELSE {})

(* The chain of a genesis block and one block for each of the buffers b2, b3. *)
QueryChain(b2, b3) ==
    LET c1 == AppendBlock(<<>>, CreateBlock(<<>>, <<>>, Sentinel, 0, 0))
        c2 == AppendBlock(c1, CreateBlock(c1, b2, TipHash(c1), 0, 1))
    IN  AppendBlock(c2, CreateBlock(c2, b3, TipHash(c2), 0, 2))

InitQuery ==
    /\ pc = "idle"
    /\ \E b2 \in QueryBuffers(2), b3 \in QueryBuffers(1) :
          /\ chain = QueryChain(b2, b3)
          /\ storage = FileOf(PersistData(chain))
          /\ log = [NoLog EXCEPT !.durable = chain]
    /\ current_transactions = <<>>
    /\ clock = 0
    /\ tx = <<>>
    /\ previous_hash = Sentinel
    /\ nonce = 0
    /\ returned = <<>>
    /\ saveFailed = FALSE
    /\ out = NoOutput
    /\ threads = NoThreads
    /\ lock = NoLock

NextQuery ==
    \/ GetProductHistory
    \/ AllTransactionsTable
    \/ RawChain

SpecQuery == InitQuery /\ [][NextQuery]_vars

----------------------------------------------------------------------------
(* Properties *)

IsPrefix(a, b) == Len(a) <= Len(b) /\ SubSeq(b, 1, Len(a)) = a

(* The blocks of the document a complete file holds. *)
DocBlocks(f) == f.text.v["chain"].v

(* The document entry jb holds the fields of the block b, value for value. *)
DocHolds(jb, b) ==
    /\ jb.v["index"].v = b.index
    /\ jb.v["timestamp"].v = b.timestamp
    /\ jb.v["previous_hash"].v = b.previous_hash
    /\ jb.v["nonce"].v = b.nonce
    /\ jb.v["hash"].v = b.hash
    /\ Len(jb.v["transactions"].v) = Len(b.transactions)
    /\ \A k \in 1..Len(b.transactions) :
          /\ DOMAIN jb.v["transactions"].v[k].v = DOMAIN b.transactions[k]
          /\ \A key \in DOMAIN b.transactions[k] :
                jb.v["transactions"].v[k].v[key].v = b.transactions[k][key]

(* The complete file f holds the chain ch, block for block. *)
FileHolds(f, ch) ==
    /\ f.state = "ok"
    /\ Len(DocBlocks(f)) = Len(ch)
    /\ \A i \in 1..Len(ch) : DocHolds(DocBlocks(f)[i], ch[i])

(* C1: hash linkage. In every reachable state the first block of the chain
   has the sentinel "1" as previous_hash and every later block has the hash
   of the block before it as previous_hash. *)
C1_HashLinkage ==
    /\ chain # <<>> => chain[1].previous_hash = Sentinel
    /\ \A i \in 1..(Len(chain) - 1) : chain[i + 1].previous_hash = chain[i].hash

(* A chain of three blocks held after a restart that loaded it. *)
C1_Witness ==
    /\ pc = "idle"
    /\ Len(chain) >= 3
    /\ returned = <<>>
    /\ ~saveFailed

(* C2: work predicate. The hash of every block of the chain, the genesis
   block included, starts with "00". *)
C2_WorkPredicate == \A i \in 1..Len(chain) : StartsWith00(chain[i].hash)

(* C3: seal consistency. The stored hash of every block of the chain is the
   digest of the canonical record of the block's own stored fields. *)
C3_SealConsistency ==
    \A i \in 1..Len(chain) :
        chain[i].hash = sha256(BlockString(chain[i].index, chain[i].timestamp,
                                           chain[i].transactions,
                                           chain[i].previous_hash, chain[i].nonce))

(* C4: index contiguity. The block at position k of the chain has index k. *)
C4_IndexContiguity == \A k \in 1..Len(chain) : chain[k].index = k

(* A chain of three blocks right after a submit returned. *)
C4_Witness ==
    /\ pc = "idle"
    /\ Len(chain) >= 3
    /\ returned = <<chain[Len(chain)]>>

(* C5: genesis. An initialization that completes with no file present leaves
   exactly one block, with index 1, the sentinel as previous_hash, no
   transactions and a nonce >= 0, and the file holds that chain; one that
   completes with a file present leaves the file as it was and the chain
   the file holds, with no block added. *)
C5_Genesis ==
    [][(pc \in {"down", "failed"} /\ pc' = "idle") =>
         IF storage.state = "absent"
         THEN /\ Len(chain') = 1
              /\ chain'[1].index = 1
              /\ chain'[1].previous_hash = Sentinel
              /\ chain'[1].transactions = <<>>
              /\ chain'[1].nonce >= 0
              /\ FileHolds(storage', chain')
         ELSE /\ storage' = storage
              /\ FileHolds(storage, chain')]_vars

(* The engine right after the genesis on an empty store. *)
C5_Witness ==
    /\ pc = "idle"
    /\ Len(chain) = 1
    /\ chain[1].transactions = <<>>
    /\ storage.state = "ok"
    /\ ~saveFailed
    /\ out = NoOutput

(* C6: submit postcondition. The step that ends add_transaction(tx) on a
   chain of length n leaves the old chain followed by one new block, which
   has index n + 1, exactly the one transaction tx, and the hash of the old
   tip as previous_hash; the block returned is that block. *)
C6_SubmitPostcondition ==
    [][(pc = "mining" /\ pc' = "idle") =>
         LET n == Len(chain)
             new == chain'[n + 1]
         IN  /\ n >= 1
             /\ Len(chain') = n + 1
             /\ SubSeq(chain', 1, n) = chain
             /\ new.index = n + 1
             /\ Len(new.transactions) = 1
             /\ new.transactions[1].product_id = tx[1][1]
             /\ new.transactions[1].role = tx[1][2]
             /\ new.transactions[1].actor_name = tx[1][3]
             /\ new.transactions[1].location = tx[1][4]
             /\ new.transactions[1].status = tx[1][5]
             /\ new.transactions[1].extra_info = tx[1][6]
             /\ new.transactions[1].timestamp = tx[1][7]
             /\ new.previous_hash = chain[n].hash
             /\ returned' # <<>> => returned' = <<new>>]_vars

(* A second submit has returned its block, the third of the chain. *)
C6_Witness ==
    /\ pc = "idle"
    /\ returned # <<>>
    /\ returned[1].index = 3
    /\ Len(returned[1].transactions) = 1

(* C7: append-only. While the engine lives, every step (genesis, submit,
   query) leaves the chain it found as a prefix of the chain it leaves. *)
C7_AppendOnly == [][pc' # "down" => IsPrefix(chain, chain')]_vars

(* A query answered on a chain that has grown by a submit. *)
C7_Witness ==
    /\ pc = "idle"
    /\ Len(chain) >= 2
    /\ out.op = "history"
    /\ out.value # <<>>

(* C8: pending buffer. With no submit or genesis in progress the buffer is
   empty, and during a submit it holds the submitted transaction alone. *)
C8_PendingBuffer ==
    /\ pc # "mining" => current_transactions = <<>>
    /\ pc = "mining" => current_transactions = tx

(* The engine during its second submit, the first one sealed. *)
C8_Witness ==
    /\ pc = "mining"
    /\ Len(chain) = 2
    /\ chain[2].transactions # <<>>
    /\ Len(current_transactions) = 1

(* C9: persistence after every mutation. With no operation in progress and
   no save failed so far, the file holds the in-memory chain block for
   block. *)
C9_Persisted == (pc = "idle" /\ ~saveFailed) => FileHolds(storage, chain)

(* The engine idle after a submit whose save succeeded. *)
C9_Witness ==
    /\ pc = "idle"
    /\ ~saveFailed
    /\ Len(chain) = 2
    /\ returned # <<>>
    /\ storage.state = "ok"

(* C10: round trip. Loading the document saved from the chain the engine
   holds succeeds and gives that chain back. *)
C10_RoundTrip ==
    pc \in {"idle", "mining"} =>
        /\ Load(FileOf(PersistData(chain))).ok
        /\ Load(FileOf(PersistData(chain))).chain = chain

(* The engine holds three blocks, two of them with a transaction. *)
C10_Witness ==
    /\ Len(chain) = 3
    /\ chain[2].transactions # <<>>
    /\ chain[3].transactions # <<>>
    /\ chain[2].timestamp # chain[3].timestamp

(* The places <<i, k>> of the transactions of the chain ch: transaction k of
   block i. *)
Positions(ch) ==
    UNION {{<<i, k>> : k \in 1..Len(ch[i].transactions)} : i \in 1..Len(ch)}

TxAt(ch, p) == ch[p[1]].transactions[p[2]]

(* The places of the transactions of product x. *)
Matches(ch, x) == {p \in Positions(ch) : TxAt(ch, p).product_id = x}

(* q comes before p: by timestamp, and for equal timestamps by place. *)
ComesBefore(ch, q, p) ==
    \/ TxAt(ch, q).timestamp < TxAt(ch, p).timestamp
    \/ /\ TxAt(ch, q).timestamp = TxAt(ch, p).timestamp
       /\ (q[1] < p[1] \/ (q[1] = p[1] /\ q[2] < p[2]))

(* C11: history. For every product id x, asked for or not present at all,
   get_product_history(x) has one entry for each transaction of the chain
   with that id and no other entry; the entries stand in the order of their
   own timestamps, those of equal timestamp in chain-then-block order; each
   entry has the fields of its transaction and the index, hash and timestamp
   of its block. *)
C11_History ==
    \A x \in ProductIds \cup {"PROD-404"} :
        LET H == get_product_history(chain, x)
            M == Matches(chain, x)
        IN  /\ Len(H) = Cardinality(M)
            /\ \A p \in M :
                  LET e == H[1 + Cardinality({q \in M : ComesBefore(chain, q, p)})]
                      d == TxAt(chain, p)
                  IN  /\ DOMAIN e = DOMAIN d \cup {"_block_index", "_block_hash",
                                                  "_block_timestamp"}
                      /\ \A key \in DOMAIN d : e[key] = d[key]
                      /\ e["_block_index"] = chain[p[1]].index
                      /\ e["_block_hash"] = chain[p[1]].hash
                      /\ e["_block_timestamp"] = chain[p[1]].timestamp

(* A history whose first entry is of a later block than its second. *)
C11_Witness ==
    /\ out.op = "history"
    /\ Len(out.value) >= 2
    /\ out.value[1]["_block_index"] > out.value[2]["_block_index"]

(* The number of transactions in the first n blocks of ch. *)
RECURSIVE TxCount(_, _)
TxCount(ch, n) == IF n = 0 THEN 0 ELSE TxCount(ch, n - 1) + Len(ch[n].transactions)

(* C12: flatten. all_transactions_table() has as many rows as the blocks have
   transactions; the row of transaction k of block i comes after the rows of
   the blocks before i and the k - 1 transactions before it, has the fields
   of that transaction and the index of block i. *)
C12_Flatten ==
    LET T == all_transactions_table(chain)
    IN  /\ Len(T) = TxCount(chain, Len(chain))
        /\ \A p \in Positions(chain) :
              LET r == T[TxCount(chain, p[1] - 1) + p[2]]
                  d == TxAt(chain, p)
              IN  /\ \A key \in DOMAIN d : r[key] = d[key]
                  /\ r["block_index"] = chain[p[1]].index

(* A table of three rows, of two blocks. *)
C12_Witness ==
    /\ out.op = "table"
    /\ Len(out.value) = 3
    /\ out.value[1]["block_index"] = 2
    /\ out.value[3]["block_index"] = 3

(* C13: non-empty chain. Once an initialization has completed, by genesis
   or by the load of whatever document the file holds, the chain has at
   least one block, and the tip hash a submit reads is not the sentinel. *)
C13_NonEmptyChain ==
    /\ pc \in {"idle", "mining"} => chain # <<>>
    /\ pc = "mining" => previous_hash # Sentinel

(* C14: crash durability. After a crash inside a submit or genesis, with
   some save returned before, the next step of the process (its startup)
   completes and leaves exactly the chain of the last save that returned. *)
C14_CrashDurability ==
    [][(pc = "down" /\ log.crashed /\ log.durable # <<>>) =>
          (pc' = "idle" /\ chain' = log.durable)]_vars

(* The document has the expected shape: an object with a "chain" list whose
   entries are objects with the six keys of a block. *)
ExpectedShape(doc) ==
    /\ doc.j = "obj"
    /\ "chain" \in DOMAIN doc.v
    /\ doc.v["chain"].j = "arr"
    /\ \A i \in DOMAIN doc.v["chain"].v :
          /\ doc.v["chain"].v[i].j = "obj"
          /\ BlockKeys \subseteq DOMAIN doc.v["chain"].v[i].v

(* C15: load errors are fatal. A startup on a file whose document has not
   the expected shape does not complete: no engine becomes usable. *)
C15_LoadErrorsFatal ==
    [][(pc \in {"down", "failed"} /\ storage.state = "ok"
            /\ ~ExpectedShape(storage.text)) => pc' # "idle"]_vars

(* C16: a save failure keeps the block. The step that ends a submit leaves
   the new block, with the submitted transaction, as the last block of the
   in-memory chain after all the blocks held before, and the buffer empty,
   whether its save fails or not; and a save that succeeds leaves the file
   holding the whole in-memory chain, the blocks of failed saves included. *)
C16_SaveFailureKeepsBlock ==
    [][(pc = "mining" /\ pc' = "idle") =>
          /\ Len(chain') = Len(chain) + 1
          /\ IsPrefix(chain, chain')
          /\ chain'[Len(chain')].transactions = <<asdict(tx[1])>>
          /\ current_transactions' = <<>>
          /\ storage' # storage /\ storage'.state = "ok" => FileHolds(storage', chain')
          /\ returned' # <<>> => FileHolds(storage', chain')]_vars

(* A submit has ended with its save failed: the block is in memory, one more
   than the file holds. *)
C16_Witness ==
    /\ pc = "idle"
    /\ returned = <<>>
    /\ storage.state = "ok"
    /\ Len(chain) = Len(log.durable) + 1
    /\ Len(chain) = Len(DocBlocks(storage)) + 1
    /\ current_transactions = <<>>

(* C18: nonce search order. A submit starts its search at nonce 0; each
   attempt whose digest is rejected moves to the next nonce, one higher; the
   nonce stored in the sealed block is the one of the attempt whose digest
   was accepted, which is the number of rejected attempts before it. *)
C18_NonceOrder ==
    [][/\ (pc = "idle" /\ pc' = "mining") => nonce' = 0
       /\ (pc = "mining" /\ pc' = "mining") =>
             /\ nonce' = nonce + 1
             /\ nonce = log.rejected
             /\ ~StartsWith00(sha256(Candidate(chain, current_transactions,
                                               previous_hash, nonce, clock')))
       /\ (pc = "mining" /\ pc' = "idle") =>
             LET b == chain'[Len(chain')]
             IN  /\ Len(chain') = Len(chain) + 1
                 /\ b.nonce = nonce
                 /\ b.nonce = log.rejected
                 /\ StartsWith00(b.hash)
                 /\ \E t \in 0..clock' :
                       b.hash = sha256(Candidate(chain, current_transactions,
                                                 previous_hash, nonce, t))]_vars

(* A submit has returned a block sealed after two rejected attempts. *)
C18_Witness ==
    /\ pc = "idle"
    /\ returned # <<>>
    /\ returned[1].nonce = 2
    /\ chain[Len(chain)] = returned[1]

(* C19: sealing termination. Every submit that is in its sealing loop
   leaves it at last with its block appended; it leaves the loop only on an
   attempt whose digest satisfies the work predicate, and an attempt whose
   digest is rejected leaves the chain unchanged and the transaction in the
   pending buffer, whatever the number of attempts so far. *)
C19_SealingTermination ==
    /\ (pc = "mining") ~> (pc = "idle")
    /\ [][/\ (pc = "mining" /\ pc' = "mining") =>
               /\ chain' = chain
               /\ current_transactions' = current_transactions
               /\ current_transactions = tx
               /\ nonce < NonceHorizon - 1
          /\ (pc = "mining" /\ pc' # "mining") =>
               /\ pc' = "idle"
               /\ \E t \in 0..clock' :
                     StartsWith00(sha256(Candidate(chain, current_transactions,
                                                   previous_hash, nonce, t)))
               /\ chain'[Len(chain')].transactions = AsDicts(tx)
               /\ returned' # <<>> => returned'[1] = chain'[Len(chain')]]_vars

(* A submit has left its loop after at least one rejected attempt and has
   returned its block. *)
C19_Witness ==
    /\ pc = "idle"
    /\ returned # <<>>
    /\ returned[1].nonce >= 1
    /\ returned[1].transactions # <<>>
    /\ Len(chain) = returned[1].index

(* Two blocks of the chain have the same index. *)
SameIndexTwice ==
    \E i, j \in 1..Len(chain) : i # j /\ chain[i].index = chain[j].index

(* Two blocks of the chain have the same previous_hash. *)
SamePreviousHashTwice ==
    \E i, j \in 1..Len(chain) : i # j /\ chain[i].previous_hash = chain[j].previous_hash

(* A transaction is sealed into two blocks. *)
SealedTwice ==
    \E i, j \in 1..Len(chain) :
        /\ i # j
        /\ \E k \in 1..Len(chain[i].transactions), l \in 1..Len(chain[j].transactions) :
              chain[i].transactions[k] = chain[j].transactions[l]

(* A caller has built a block whose transactions are not those its accepted
   candidate held. *)
BuiltFromOtherBuffer ==
    \E t \in Threads :
        threads[t].block # <<>> /\ threads[t].block[1].transactions # threads[t].hashed

(* C17: concurrent sealing is unsafe. When the calls of add_transaction on
   one engine are serialized, no two blocks share an index or a
   previous_hash, no transaction is in two blocks, and every block holds the
   transactions that were hashed (the witness is the state two interleaved
   calls reach, where all four fail). *)
C17_SerializedSafe ==
    lock.serialized =>
        /\ ~SameIndexTwice
        /\ ~SamePreviousHashTwice
        /\ ~SealedTwice
        /\ ~BuiltFromOtherBuffer

(* Two calls have interleaved without mutual exclusion, both have returned,
   and the chain breaks every one of the four invariants. *)
C17_Witness ==
    /\ ~lock.serialized
    /\ \A t \in Threads : threads[t].pc = "done"
    /\ SameIndexTwice
    /\ SamePreviousHashTwice
    /\ SealedTwice
    /\ BuiltFromOtherBuffer

(* The transactions of acked stand, in their order, each alone in a block
   of its own after the genesis block of ch. *)
Embedded(acked, ch) ==
    \E f \in [1..Len(acked) -> 2..Len(ch)] :
        /\ \A i, j \in 1..Len(acked) : i < j => f[i] < f[j]
        /\ \A i \in 1..Len(acked) : ch[f[i]].transactions = <<asdict(acked[i])>>

(* C20: exactly-once recording. Whenever the engine is usable, across
   restarts, the transactions whose submit returned are each alone in a
   block of their own, in the order of the submits, and every block after
   the genesis block holds one transaction; the chain changes only by a
   submit, which adds one block holding exactly the transaction submitted,
   by a startup, which takes the genesis block or the chain the file holds
   (that of the last save that returned, possibly with later blocks), or by
   the end of the process. *)
C20_ExactlyOnce ==
    [][/\ pc' \in {"idle", "mining"} =>
             /\ chain' # <<>>
             /\ Embedded(log'.acked, chain')
             /\ chain'[1].transactions = <<>>
             /\ \A i \in 2..Len(chain') : Len(chain'[i].transactions) = 1
       /\ CASE pc = "mining" /\ pc' = "idle" ->
                 /\ Len(chain') = Len(chain) + 1
                 /\ IsPrefix(chain, chain')
                 /\ chain'[Len(chain')].transactions = <<asdict(tx[1])>>
            [] pc \in {"down", "failed"} /\ pc' = "idle" ->
                 IF storage.state = "absent"
                 THEN Len(chain') = 1
                 ELSE FileHolds(storage, chain') /\ IsPrefix(log.durable, chain')
            [] OTHER -> chain' = chain \/ chain' = <<>>]_vars

(* The engine was restarted and holds, after the genesis block, the blocks
   of two submits that returned. *)
C20_Witness ==
    /\ pc = "idle"
    /\ returned = <<>>
    /\ Len(log.acked) = 2
    /\ Len(chain) = 3
    /\ Embedded(log.acked, chain)
    /\ FileHolds(storage, chain)

====
